---- MODULE Spec2Model ----
(***************************************************************************)
(* The to-do application of django_app: the Todo table and the views of    *)
(* views.py that create, list, toggle, trash and restore its rows, each    *)
(* scoped to request.user.                                                  *)
(*                                                                          *)
(* A row of the Todo table is a record                                      *)
(*   [user, content, created_at, marked_as_done_at, deleted_at];            *)
(* a nullable timestamp is <<>> (None) or <<t>>.  A text is a sequence of   *)
(* characters.  One step of the model is one HTTP request handled to its    *)
(* end; the request and the response it got are kept in two variables so    *)
(* that properties can speak about what a view did.                         *)
(*                                                                          *)
(* timezone.now() is read from a clock that moves on between two reads, so  *)
(* no two rows share a created_at.  models.py declares no deleted_at        *)
(* column although the views filter on it and assign to it and the tests    *)
(* create rows with it; it is taken to be a nullable timestamp like         *)
(* marked_as_done_at, null on a new row.                                    *)
(***************************************************************************)
EXTENDS Integers, Sequences, FiniteSets, TLC

VARIABLES
    todos,       \* the Todo table: id -> row
    next_id,     \* the id the table gives to the next inserted row
    now,         \* what timezone.now() returns to the next caller
    request,     \* the request handled last
    response,    \* the response it got
    before,      \* the table, the id counter and the clock as that request found them
    writes,      \* the last two successful writes to existing rows, newest last,
                 \* each with the row as it was before the write
    usernames,   \* the username column of the User table
    calls,       \* the calls of generate_unique_username so far: the hex drawn,
                 \* the usernames registered at the call, the name returned
    social_apps, \* the SocialApp table: the rows in the order of their ids
    app_sites,   \* the SocialApp.sites relation: <<app id, site id>> rows
    sites,       \* the Site table
    printed,     \* what the last run of configure_social_apps printed
    run,         \* the last run of configure_social_apps: its arguments, the
                 \* three tables as it found them, and whether the run before
                 \* it had the same arguments
    file_exists, \* whether .env.local exists
    env_local,   \* the items dotenv_values reads from it
    environ,     \* the items of os.environ
    reads,       \* the calls of _read_config_parameter so far, with their results
    logins,      \* the calls of populate_user so far: the email of the user
                 \* built so far, the account's extra_data, the email returned
    user_table,  \* the User table as concurrent sign-ups fill it: the usernames
                 \* of its rows in the order of their insertion
    signups,     \* the sign-ups under way: where each is, the hex it drew, its
                 \* counter, the username it holds
    workers,     \* the requests under way on one Todo row: where each is, its
                 \* view and user, the row it read, the row it saves
    last_writer, \* the worker that saved last, 0 before any save
    runs         \* two runs of the views side by side: the Todo table, the id
                 \* counter and the clock of each

\* the Todo table and the views' requests
todo_vars == <<todos, next_id, now, request, response, before, writes>>

\* the User table and the adapter's calls
username_vars == <<usernames, calls>>

\* the tables configure_social_apps works on, and its runs
social_vars == <<social_apps, app_sites, sites, printed, run>>

\* the sources _read_config_parameter reads, and its calls
config_vars == <<file_exists, env_local, environ, reads>>

\* the calls of populate_user
login_vars == <<logins>>

\* the User table under concurrent sign-ups
signup_vars == <<user_table, signups>>

\* the requests that interleave on one row
race_vars == <<workers, last_writer>>

\* the two runs compared
run_vars == <<runs>>

\* the state no view of Spec touches: identity provisioning, and the state
\* of the specifications of sign-ups, interleaved requests and paired runs
provisioning ==
    <<username_vars, social_vars, config_vars, login_vars, signup_vars, race_vars, run_vars>>

vars == <<todos, next_id, now, request, response, before, writes, provisioning>>

----------------------------------------------------------------------------
(* Bounds of the model *)

\* at most this many rows are ever inserted
MaxTodos == 2
\* timezone.now() is read at most this many times
MaxTime == 3
\* generate_unique_username is called at most this many times
MaxCalls == 3

----------------------------------------------------------------------------
(* Values *)

None == <<>>
Some(t) == <<t>>

\* django.contrib.auth users that can log in, and the user of a request without a session
Users == {"u1", "u2"}
AnonymousUser == "anonymous"
\* a check that lets every request through
is_authenticated_anyone(user) == TRUE

is_authenticated(user) == user \in Users

Methods == {"GET", "POST"}

\* ids a request can name: every id the table can give out and one it never gives
TodoIds == 1..(MaxTodos + 1)

Whitespace == {" "}
\* the texts a request carries in its content field: empty, blank, plain,
\* padded with whitespace, and with whitespace inside
Texts == {<<>>, <<" ">>, <<" ", " ">>, <<"a">>, <<" ", "a", " ">>, <<"a", " ", "b">>}
\* the content field of request.POST: {} when the key is absent, else {text}
Absent == {}
ContentInputs == {{t} : t \in Texts} \cup {Absent}
\* the new content an edit request carries: blank, or padded text with whitespace inside
EditInputs == {{<<" ">>}, {<<" ", "a", " ", "b">>}}

----------------------------------------------------------------------------
(* str.strip(), views.py line 19 *)

RECURSIVE lstrip(_)
lstrip(s) ==
    IF s # <<>> /\ Head(s) \in Whitespace THEN lstrip(Tail(s)) ELSE s

RECURSIVE rstrip(_)
rstrip(s) ==
    IF s # <<>> /\ s[Len(s)] \in Whitespace
    THEN rstrip(SubSeq(s, 1, Len(s) - 1))
    ELSE s

\* a view that forgets to strip
strip_keeps_all(s) == s

\* a view that strips on the left only
strip_leading_only(s) == lstrip(s)

strip(s) == rstrip(lstrip(s))

\* request.POST.get('content', '')
post_get_content(c) == IF c = Absent THEN <<>> ELSE CHOOSE t \in c : TRUE

----------------------------------------------------------------------------
(* The Todo model, models.py *)

\* is_done with the test the wrong way round, and is_done that never sees a done row
is_done_inverted(row) == row.marked_as_done_at = None

is_done_never(row) == FALSE

\* an is_done that reads the other timestamp
is_done_reads_deleted_at(row) == row.deleted_at # None

\* Todo.is_done
is_done(row) == row.marked_as_done_at # None

\* Todo.deleted_at: the column the views filter on and assign to; a new row has it null
deleted_at_default == None

\* Todo.is_deleted
is_deleted(row) == row.deleted_at # None

\* Todo.objects.create(content=content, user=request.user) builds this row at time t
new_todo(user, content, t) ==
    [user |-> user, content |-> content, created_at |-> t,
     marked_as_done_at |-> None, deleted_at |-> deleted_at_default]

\* an insert that gives every row the first id
insert_id_first(store, counter) == 1

\* the id an insert gives the new row (the implicit AutoField of Todo)
insert_id(store, counter) == counter

\* ordering = ['created_at']: oldest first
RECURSIVE order_by_created_at_asc(_, _)
order_by_created_at_asc(store, S) ==
    IF S = {} THEN <<>>
    ELSE LET oldest == CHOOSE i \in S :
                          \A j \in S : store[i].created_at <= store[j].created_at
         IN  <<oldest>> \o order_by_created_at_asc(store, S \ {oldest})

\* Meta.ordering = ['-created_at']: the rows of S, newest first
RECURSIVE order_by_created_at_desc(_, _)
order_by_created_at_desc(store, S) ==
    IF S = {} THEN <<>>
    ELSE LET newest == CHOOSE i \in S :
                          \A j \in S : store[j].created_at <= store[i].created_at
         IN  <<newest>> \o order_by_created_at_desc(store, S \ {newest})

----------------------------------------------------------------------------
(* The querysets and lookups of views.py *)

\* the active filter without deleted_at__isnull=True
todo_list_filter_with_trashed(store, user) ==
    {i \in DOMAIN store : store[i].user = user}

\* Todo.objects.filter(user=request.user, deleted_at__isnull=True)
todo_list_filter(store, user) ==
    {i \in DOMAIN store : store[i].user = user /\ store[i].deleted_at = None}

\* the trash filter without user=request.user
trash_filter_all_users(store, user) ==
    {i \in DOMAIN store : store[i].deleted_at # None}

\* Todo.objects.filter(user=request.user, deleted_at__isnull=False)
trash_filter(store, user) ==
    {i \in DOMAIN store : store[i].user = user /\ store[i].deleted_at # None}

\* the lookup without user=request.user
toggle_todo_lookup_any_owner(store, todo_id, user) ==
    todo_id \in DOMAIN store

\* a lookup that finds active rows only
toggle_todo_lookup_active_only(store, todo_id, user) ==
    /\ todo_id \in DOMAIN store
    /\ store[todo_id].user = user
    /\ store[todo_id].deleted_at = None

\* get_object_or_404(Todo, id=todo_id, user=request.user) of toggle_todo
toggle_todo_lookup(store, todo_id, user) ==
    todo_id \in DOMAIN store /\ store[todo_id].user = user

delete_todo_lookup_active_only(store, todo_id, user) ==
    /\ todo_id \in DOMAIN store
    /\ store[todo_id].user = user
    /\ store[todo_id].deleted_at = None

\* get_object_or_404(Todo, id=todo_id, user=request.user) of delete_todo
delete_todo_lookup(store, todo_id, user) ==
    todo_id \in DOMAIN store /\ store[todo_id].user = user

\* the lookup without deleted_at__isnull=False
restore_todo_lookup_any_state(store, todo_id, user) ==
    todo_id \in DOMAIN store /\ store[todo_id].user = user

\* get_object_or_404(Todo, id=todo_id, user=request.user, deleted_at__isnull=False)
restore_todo_lookup(store, todo_id, user) ==
    /\ todo_id \in DOMAIN store
    /\ store[todo_id].user = user
    /\ store[todo_id].deleted_at # None

\* the listing a rendered page shows
ListActive(store, user) == order_by_created_at_desc(store, todo_list_filter(store, user))
ListTrashed(store, user) == order_by_created_at_desc(store, trash_filter(store, user))

----------------------------------------------------------------------------
(* The assignments the views make to the row they looked up *)

\* a toggle that also takes the row out of the trash
toggle_todo_assign_restores(row, t) ==
    IF is_done(row)
    THEN [row EXCEPT !.marked_as_done_at = None, !.deleted_at = None]
    ELSE [row EXCEPT !.marked_as_done_at = Some(t), !.deleted_at = None]

\* toggle_todo, lines 35-40: t is timezone.now()
toggle_todo_assign(row, t) ==
    IF is_done(row)
    THEN [row EXCEPT !.marked_as_done_at = None]
    ELSE [row EXCEPT !.marked_as_done_at = Some(t)]

\* assignments that also reset marked_as_done_at
delete_todo_assign_clears_done(row, t) ==
    [row EXCEPT !.deleted_at = Some(t), !.marked_as_done_at = None]

\* delete_todo, line 50
delete_todo_assign(row, t) == [row EXCEPT !.deleted_at = Some(t)]

restore_todo_assign_clears_done(row) ==
    [row EXCEPT !.deleted_at = None, !.marked_as_done_at = None]

\* restore_todo, line 66
restore_todo_assign(row) == [row EXCEPT !.deleted_at = None]

----------------------------------------------------------------------------
(* Requests and responses *)

Request(path, method, user, todo_id, content) ==
    [path |-> path, method |-> method, user |-> user,
     todo_id |-> todo_id, content |-> content]

\* status, the template rendered or the view redirected to, the message
\* flashed, and the rows in the page's context
Response(status, target, message, listing) ==
    [status |-> status, target |-> target, message |-> message, listing |-> listing]

NoMessage == "-"
AddedMessage == "Todo added successfully!"
EmptyMessage == "Todo content cannot be empty!"
DoneMessage == "Todo marked as done!"
NotDoneMessage == "Todo marked as not done!"
TrashedMessage == "Todo moved to trash!"
RestoredMessage == "Todo restored successfully!"

NotFound == Response(404, "-", NoMessage, <<>>)
MethodNotAllowed == Response(405, "-", NoMessage, <<>>)
\* @login_required
RedirectToLogin == Response(302, "login", NoMessage, <<>>)
Redirect(view, message) == Response(302, view, message, <<>>)

\* the record of a write by the view at path to the row todo_id
Written(path, todo_id) ==
    LET entry == [path |-> path, todo_id |-> todo_id, row |-> todos[todo_id]]
    IN  IF writes = <<>> THEN <<entry>> ELSE <<writes[Len(writes)], entry>>

\* no user has signed up through a provider
NoUsernames ==
    /\ usernames = {}
    /\ calls = <<>>

\* no SocialApp, no Site, configure_social_apps has not run
NoSocialApps ==
    /\ social_apps = <<>>
    /\ app_sites = <<>>
    /\ sites = {}
    /\ printed = <<>>
    /\ run = [sender |-> "", site_id |-> 0, config |-> <<>>, repeated |-> FALSE,
              before |-> [social_apps |-> <<>>, app_sites |-> <<>>, sites |-> {}]]

\* no .env.local, an empty environment, _read_config_parameter not called
NoConfig ==
    /\ file_exists = FALSE
    /\ env_local = {}
    /\ environ = {}
    /\ reads = {}

\* populate_user has not been called
NoLogins == logins = <<>>

\* no sign-up is under way
NoSignups ==
    /\ user_table = <<>>
    /\ signups = <<>>

\* no requests interleave
NoRace ==
    /\ workers = <<>>
    /\ last_writer = 0

\* no runs are compared
NoRuns == runs = <<>>

\* the Todo table is empty and no request has been handled
NoTodos ==
    /\ todos = <<>>
    /\ next_id = 1
    /\ now = 1
    /\ request = Request("none", "GET", AnonymousUser, 0, Absent)
    /\ response = Response(0, "-", NoMessage, <<>>)
    /\ before = [todos |-> <<>>, next_id |-> 1, now |-> 1]
    /\ writes = <<>>

Init ==
    /\ NoTodos
    /\ NoUsernames
    /\ NoSocialApps
    /\ NoConfig
    /\ NoLogins
    /\ NoSignups
    /\ NoRace
    /\ NoRuns

----------------------------------------------------------------------------
(* The views of views.py, one action per view, each a whole request *)

\* what a request finds when it arrives
Found == [todos |-> todos, next_id |-> next_id, now |-> now]

\* todo_list, lines 11-27: the login page, the creation of a row, or the active listing
todo_list(method, user, content) ==
    /\ request' = Request("", method, user, 0, content)
    /\ before' = Found
    /\ UNCHANGED provisioning
    /\ IF ~is_authenticated(user)
       THEN /\ response' = Response(200, "login.html", NoMessage, <<>>)
            /\ UNCHANGED <<todos, next_id, now, writes>>
       ELSE IF method = "POST" /\ strip(post_get_content(content)) # <<>>
       THEN LET id == insert_id(todos, next_id)
                row == new_todo(user, strip(post_get_content(content)), now)
            IN  /\ next_id <= MaxTodos
                /\ now <= MaxTime
                /\ todos' = [i \in DOMAIN todos \cup {id} |->
                                IF i = id THEN row ELSE todos[i]]
                /\ next_id' = next_id + 1
                /\ now' = now + 1
                /\ response' = Redirect("todo_list", AddedMessage)
                /\ UNCHANGED writes
       ELSE /\ response' = Response(200, "todo_list.html",
                                    IF method = "POST" THEN EmptyMessage ELSE NoMessage,
                                    ListActive(todos, user))
            /\ UNCHANGED <<todos, next_id, now, writes>>

\* toggle_todo, lines 29-43
toggle_todo(method, user, todo_id) ==
    /\ request' = Request("toggle", method, user, todo_id, Absent)
    /\ before' = Found
    /\ UNCHANGED provisioning
    /\ IF method # "POST"
       THEN /\ response' = MethodNotAllowed
            /\ UNCHANGED <<todos, next_id, now, writes>>
       ELSE IF ~is_authenticated(user)
       THEN /\ response' = RedirectToLogin
            /\ UNCHANGED <<todos, next_id, now, writes>>
       ELSE IF ~toggle_todo_lookup(todos, todo_id, user)
       THEN /\ response' = NotFound
            /\ UNCHANGED <<todos, next_id, now, writes>>
       ELSE IF is_done(todos[todo_id])
       THEN /\ todos' = [todos EXCEPT ![todo_id] = toggle_todo_assign(@, now)]
            /\ response' = Redirect("todo_list", NotDoneMessage)
            /\ writes' = Written("toggle", todo_id)
            /\ UNCHANGED <<next_id, now>>
       ELSE /\ now <= MaxTime
            /\ todos' = [todos EXCEPT ![todo_id] = toggle_todo_assign(@, now)]
            /\ now' = now + 1
            /\ response' = Redirect("todo_list", DoneMessage)
            /\ writes' = Written("toggle", todo_id)
            /\ UNCHANGED next_id

\* delete_todo with the row saved before its owner is checked
delete_todo_writes_first(method, user, todo_id) ==
    /\ request' = Request("delete", method, user, todo_id, Absent)
    /\ before' = Found
    /\ UNCHANGED provisioning
    /\ IF method # "POST"
       THEN /\ response' = MethodNotAllowed
            /\ UNCHANGED <<todos, next_id, now, writes>>
       ELSE IF ~is_authenticated(user)
       THEN /\ response' = RedirectToLogin
            /\ UNCHANGED <<todos, next_id, now, writes>>
       ELSE IF todo_id \notin DOMAIN todos
       THEN /\ response' = NotFound
            /\ UNCHANGED <<todos, next_id, now, writes>>
       ELSE /\ now <= MaxTime
            /\ todos' = [todos EXCEPT ![todo_id] = delete_todo_assign(@, now)]
            /\ now' = now + 1
            /\ response' = IF todos[todo_id].user = user
                           THEN Redirect("todo_list", TrashedMessage)
                           ELSE NotFound
            /\ writes' = Written("delete", todo_id)
            /\ UNCHANGED next_id

\* delete_todo as a hard delete: todo.delete()
delete_todo_removes_row(method, user, todo_id) ==
    /\ request' = Request("delete", method, user, todo_id, Absent)
    /\ before' = Found
    /\ UNCHANGED provisioning
    /\ IF method # "POST"
       THEN /\ response' = MethodNotAllowed
            /\ UNCHANGED <<todos, next_id, now, writes>>
       ELSE IF ~is_authenticated(user)
       THEN /\ response' = RedirectToLogin
            /\ UNCHANGED <<todos, next_id, now, writes>>
       ELSE IF ~delete_todo_lookup(todos, todo_id, user)
       THEN /\ response' = NotFound
            /\ UNCHANGED <<todos, next_id, now, writes>>
       ELSE /\ todos' = [i \in DOMAIN todos \ {todo_id} |-> todos[i]]
            /\ response' = Redirect("todo_list", TrashedMessage)
            /\ writes' = Written("delete", todo_id)
            /\ UNCHANGED <<next_id, now>>

\* delete_todo, lines 45-53
delete_todo(method, user, todo_id) ==
    /\ request' = Request("delete", method, user, todo_id, Absent)
    /\ before' = Found
    /\ UNCHANGED provisioning
    /\ IF method # "POST"
       THEN /\ response' = MethodNotAllowed
            /\ UNCHANGED <<todos, next_id, now, writes>>
       ELSE IF ~is_authenticated(user)
       THEN /\ response' = RedirectToLogin
            /\ UNCHANGED <<todos, next_id, now, writes>>
       ELSE IF ~delete_todo_lookup(todos, todo_id, user)
       THEN /\ response' = NotFound
            /\ UNCHANGED <<todos, next_id, now, writes>>
       ELSE /\ now <= MaxTime
            /\ todos' = [todos EXCEPT ![todo_id] = delete_todo_assign(@, now)]
            /\ now' = now + 1
            /\ response' = Redirect("todo_list", TrashedMessage)
            /\ writes' = Written("delete", todo_id)
            /\ UNCHANGED next_id

\* trash, lines 55-59
trash(method, user) ==
    /\ request' = Request("trash", method, user, 0, Absent)
    /\ before' = Found
    /\ UNCHANGED provisioning
    /\ response' = IF ~is_authenticated(user)
                   THEN RedirectToLogin
                   ELSE Response(200, "trash.html", NoMessage, ListTrashed(todos, user))
    /\ UNCHANGED <<todos, next_id, now, writes>>

\* restore_todo, lines 61-69
restore_todo(method, user, todo_id) ==
    /\ request' = Request("restore", method, user, todo_id, Absent)
    /\ before' = Found
    /\ UNCHANGED provisioning
    /\ IF method # "POST"
       THEN /\ response' = MethodNotAllowed
            /\ UNCHANGED <<todos, next_id, now, writes>>
       ELSE IF ~is_authenticated(user)
       THEN /\ response' = RedirectToLogin
            /\ UNCHANGED <<todos, next_id, now, writes>>
       ELSE IF ~restore_todo_lookup(todos, todo_id, user)
       THEN /\ response' = NotFound
            /\ UNCHANGED <<todos, next_id, now, writes>>
       ELSE /\ todos' = [todos EXCEPT ![todo_id] = restore_todo_assign(@)]
            /\ response' = Redirect("trash", RestoredMessage)
            /\ writes' = Written("restore", todo_id)
            /\ UNCHANGED <<next_id, now>>

\* urlpatterns has no route for editing a row: a request to edit/<id>/ matches
\* no pattern and the resolver answers 404 before any view runs
edit_unrouted(method, user, todo_id, content) ==
    /\ request' = Request("edit", method, user, todo_id, content)
    /\ before' = Found
    /\ UNCHANGED provisioning
    /\ response' = NotFound
    /\ UNCHANGED <<todos, next_id, now, writes>>

\* The requests of the model.  A view that answers before it reads the id or
\* the content (no session, wrong method) gets one such request, not one per
\* id and content.
Next ==
    \/ \E user \in Users \cup {AnonymousUser} : todo_list("GET", user, Absent)
    \/ \E user \in Users, content \in ContentInputs : todo_list("POST", user, content)
    \/ \E content \in {Absent, {<<"a">>}} : todo_list("POST", AnonymousUser, content)
    \/ \E user \in Users, todo_id \in TodoIds : toggle_todo("POST", user, todo_id)
    \/ \E method \in Methods : toggle_todo(method, AnonymousUser, 1)
    \/ \E user \in Users, todo_id \in TodoIds : delete_todo("POST", user, todo_id)
    \/ \E method \in Methods : delete_todo(method, AnonymousUser, 1)
    \/ \E method \in Methods, user \in Users \cup {AnonymousUser} : trash(method, user)
    \/ \E user \in Users, todo_id \in TodoIds : restore_todo("POST", user, todo_id)
    \/ \E method \in Methods : restore_todo(method, AnonymousUser, 1)
    \/ \E user \in Users, todo_id \in TodoIds, content \in EditInputs :
          edit_unrouted("POST", user, todo_id, content)

Spec == Init /\ [][Next]_vars

----------------------------------------------------------------------------
(* CustomSocialAccountAdapter.generate_unique_username, adapters.py.  A    *)
(* username is the sequence of its characters.                             *)

\* the slice bound of uuid.uuid4().hex[:8]
HexLen == 8

HexDigits == {"0", "1", "2", "3", "4", "5", "6", "7", "8", "9",
              "a", "b", "c", "d", "e", "f"}

\* values uuid.uuid4().hex can take: 32 hex digits, two of them alike in
\* the first eight
UuidHex ==
    {head \o [i \in 1..23 |-> "0"] \o <<last>> :
        <<head, last>> \in {<<<<"0", "0", "0", "0", "0", "0", "0", "a">>, "0">>,
                            <<<<"0", "0", "0", "0", "0", "0", "0", "a">>, "1">>,
                            <<<<"d", "e", "a", "d", "b", "e", "e", "f">>, "0">>}}

\* str(counter) inside the f-string of line 30
RECURSIVE str(_)
str(n) ==
    LET digit == <<"0", "1", "2", "3", "4", "5", "6", "7", "8", "9">>[(n % 10) + 1]
    IN  IF n < 10 THEN <<digit>> ELSE str(n \div 10) \o <<digit>>

\* f"user_{uuid.uuid4().hex[:8]}", line 23
base_username(hex) == <<"u", "s", "e", "r", "_">> \o SubSeq(hex, 1, HexLen)

\* f"{base_username}_{counter}", line 30
suffixed_username(base, counter) == base \o <<"_">> \o str(counter)

\* usernames that may be registered before the first call: one that was not
\* generated, and generated ones with and without a suffix
PriorNames ==
    LET taken == <<"u", "s", "e", "r", "_", "0", "0", "0", "0", "0", "0", "0", "a">>
    IN  {<<"t", "e", "s", "t", "u", "s", "e", "r">>, taken,
         taken \o <<"_", "1">>, taken \o <<"_", "2">>}

\* an existence check that never finds the name
username_exists_never(registered, username) == FALSE

\* User.objects.filter(username=username).exists(), line 28
username_exists(registered, username) == username \in registered

\* the loop run at most once: an if in place of the while
unique_username_one_try(registered, base, counter) ==
    IF counter = 0 /\ username_exists(registered, base)
    THEN suffixed_username(base, 1)
    ELSE base

\* the while loop, lines 26-32, entered with the counter at `counter`
RECURSIVE unique_username(_, _, _)
unique_username(registered, base, counter) ==
    LET username == IF counter = 0 THEN base ELSE suffixed_username(base, counter)
    IN  IF username_exists(registered, username)
        THEN unique_username(registered, base, counter + 1)
        ELSE username

\* generate_unique_username, lines 18-32, with hex the value drawn
generate_unique_username(hex) ==
    /\ Len(calls) < MaxCalls
    /\ calls' = Append(calls, [hex |-> hex, registered |-> usernames,
                               name |-> unique_username(usernames, base_username(hex), 0)])
    /\ UNCHANGED <<usernames, todo_vars, social_vars, config_vars>>
    /\ UNCHANGED <<login_vars, signup_vars, race_vars, run_vars>>

\* user.username = adapter.generate_unique_username([]); user.save(): the
\* name returned last is registered; the unique column holds it once
user_save ==
    /\ calls # <<>>
    /\ usernames' = usernames \cup {calls[Len(calls)].name}
    /\ UNCHANGED <<calls, todo_vars, social_vars, config_vars>>
    /\ UNCHANGED <<login_vars, signup_vars, race_vars, run_vars>>

InitUsernames ==
    /\ NoTodos
    /\ NoSocialApps
    /\ NoConfig
    /\ NoLogins
    /\ NoSignups
    /\ NoRace
    /\ NoRuns
    /\ calls = <<>>
    /\ usernames \in SUBSET PriorNames

NextUsernames ==
    \/ \E hex \in UuidHex : generate_unique_username(hex)
    \/ user_save

SpecUsernames == InitUsernames /\ [][NextUsernames]_vars

----------------------------------------------------------------------------
(* configure_social_apps, signals.py.  A credential of a provider entry is *)
(* None or Some(text); the columns of a SocialApp row hold texts.          *)

\* the sender the receiver acts for, and another one
Senders == {"django_app", "other_app"}

\* os.getenv("SITE_ID", 1)
SiteIds == {1, 2}

\* "your_"
your_ == <<"y", "o", "u", "r", "_">>

\* values of config["client_id"]: missing, empty, placeholder, two real ones
ClientIds ==
    {None, Some(<<>>), Some(your_ \o <<"i", "d">>), Some(<<"i", "d", "1">>),
     Some(<<"i", "d", "2">>)}

\* values of config["client_secret"]: missing, empty, placeholder, and two
\* real ones, the second a proper prefix of "your_"
ClientSecrets ==
    {None, Some(<<>>), Some(your_ \o <<"s">>), Some(<<"s", "1">>),
     Some(<<"y", "o", "u", "r">>)}

ProviderEntry(provider_id, name, client_id, client_secret) ==
    [provider_id |-> provider_id, name |-> name,
     client_id |-> client_id, client_secret |-> client_secret]

\* the items of SOCIAL_LOGIN_PROVIDERS, in the order of the dictionary: the
\* google entry, alone or followed by a second provider's
ProviderConfigs ==
    LET google == {ProviderEntry("google", "Google", client_id, client_secret) :
                      client_id \in ClientIds, client_secret \in ClientSecrets}
        github == {ProviderEntry("github", "GitHub", client_id, Some(<<"s", "2">>)) :
                      client_id \in {Some(<<"i", "d", "3">>), Some(your_ \o <<"i", "d">>)}}
    IN  {<<g>> : g \in google} \cup {<<g, h>> : g \in google, h \in github}

\* the configurations also run with the second site id
OtherSiteConfigs ==
    {<<ProviderEntry("google", "Google", client_id, Some(<<"s", "1">>))>> :
        client_id \in {Some(<<"i", "d", "1">>), None}}

\* a row of the SocialApp table
SocialApp(provider, name, client_id, secret) ==
    [provider |-> provider, name |-> name, client_id |-> client_id, secret |-> secret]

\* a row of the Site table
Site(id, domain, name) == [id |-> id, domain |-> domain, name |-> name]

\* a check that takes the empty string for a credential
not_provided_only_none(credential) == credential = None

\* not config["client_id"], line 99: None and "" are falsy
not_provided(credential) == credential = None \/ credential = Some(<<>>)

\* str.startswith
startswith(text, prefix) ==
    Len(text) >= Len(prefix) /\ SubSeq(text, 1, Len(prefix)) = prefix

\* a check that looks at the client id alone
is_placeholder_client_id_only(entry) == startswith(entry.client_id[1], your_)

\* a run without the placeholder check
is_placeholder_never(entry) == FALSE

\* lines 104-106
is_placeholder(entry) ==
    startswith(entry.client_id[1], your_) \/ startswith(entry.client_secret[1], your_)

\* Site.objects.get_or_create(id=..., defaults={...}), lines 91-94
site_get_or_create(table, id) ==
    IF \E site \in table : site.id = id
    THEN table
    ELSE table \cup {Site(id, "localhost:8000", "Todoer")}

\* SocialApp.objects.get_or_create(provider=provider_id, defaults={...}),
\* lines 111-118: the row found, or a new row; get() raises when it finds
\* more than one
social_app_get_or_create(table, entry) ==
    LET found == {id \in 1..Len(table) : table[id].provider = entry.provider_id}
    IN  IF found = {}
        THEN [table |-> Append(table, SocialApp(entry.provider_id, entry.name,
                                                entry.client_id[1], entry.client_secret[1])),
              id |-> Len(table) + 1, created |-> TRUE, raised |-> FALSE]
        ELSE IF Cardinality(found) = 1
        THEN [table |-> table, id |-> CHOOSE id \in found : TRUE,
              created |-> FALSE, raised |-> FALSE]
        ELSE [table |-> table, id |-> 0, created |-> FALSE, raised |-> TRUE]

\* an update that leaves the row as it was
social_app_save_nothing(table, id, entry) == table

\* social_app.name = ...; social_app.client_id = ...; social_app.secret = ...;
\* social_app.save(), lines 122-125
social_app_save(table, id, entry) ==
    [table EXCEPT ![id] = [@ EXCEPT !.name = entry.name,
                                    !.client_id = entry.client_id[1],
                                    !.secret = entry.client_secret[1]]]

\* an add that inserts the relation row whether or not it is there
sites_add_again(relation, app_id, site_id) == Append(relation, <<app_id, site_id>>)

\* social_app.sites.add(site), line 128
sites_add(relation, app_id, site_id) ==
    IF \E i \in 1..Len(relation) : relation[i] = <<app_id, site_id>>
    THEN relation
    ELSE Append(relation, <<app_id, site_id>>)

\* the lines print() writes
SkippedNotProvided(name) == <<"Skipping", name, "credentials not provided">>
SkippedPlaceholder(name) == <<"Skipping", name, "placeholder credentials detected">>
CreatedApp(name) == <<"Created", name, "SocialApp">>
UpdatedApp(name) == <<"Updated", name, "SocialApp">>
Completed == <<"SocialApp configuration completed">>

\* the loop with break in place of continue: a skipped entry ends it
RECURSIVE configure_loop_stops_at_skip(_, _, _)
configure_loop_stops_at_skip(db, site_id, config) ==
    IF config = <<>> \/ db.raised THEN db
    ELSE
        LET entry == Head(config)
            got == social_app_get_or_create(db.social_apps, entry)
            saved == IF got.created THEN got.table
                     ELSE social_app_save(got.table, got.id, entry)
        IN  IF not_provided(entry.client_id) \/ not_provided(entry.client_secret)
            THEN [db EXCEPT !.printed = Append(@, SkippedNotProvided(entry.name))]
            ELSE IF is_placeholder(entry)
            THEN [db EXCEPT !.printed = Append(@, SkippedPlaceholder(entry.name))]
            ELSE IF got.raised
            THEN [db EXCEPT !.raised = TRUE]
            ELSE configure_loop_stops_at_skip(
                     [social_apps |-> saved,
                      app_sites |-> sites_add(db.app_sites, got.id, site_id),
                      printed |-> Append(db.printed,
                                         IF got.created THEN CreatedApp(entry.name)
                                         ELSE UpdatedApp(entry.name)),
                      raised |-> FALSE],
                     site_id, Tail(config))

\* the for loop, lines 97-130, over the entries left in config; db holds the
\* two tables, the lines printed so far and whether get_or_create raised
RECURSIVE configure_loop(_, _, _)
configure_loop(db, site_id, config) ==
    IF config = <<>> \/ db.raised THEN db
    ELSE
        LET entry == Head(config)
            got == social_app_get_or_create(db.social_apps, entry)
            saved == IF got.created THEN got.table
                     ELSE social_app_save(got.table, got.id, entry)
        IN  IF not_provided(entry.client_id) \/ not_provided(entry.client_secret)
            THEN configure_loop(
                     [db EXCEPT !.printed = Append(@, SkippedNotProvided(entry.name))],
                     site_id, Tail(config))
            ELSE IF is_placeholder(entry)
            THEN configure_loop(
                     [db EXCEPT !.printed = Append(@, SkippedPlaceholder(entry.name))],
                     site_id, Tail(config))
            ELSE IF got.raised
            THEN [db EXCEPT !.raised = TRUE]
            ELSE configure_loop(
                     [social_apps |-> saved,
                      app_sites |-> sites_add(db.app_sites, got.id, site_id),
                      printed |-> Append(db.printed,
                                         IF got.created THEN CreatedApp(entry.name)
                                         ELSE UpdatedApp(entry.name)),
                      raised |-> FALSE],
                     site_id, Tail(config))

\* configure_social_apps, lines 79-132: one run of the receiver
configure_social_apps(sender, site_id, config) ==
    LET found == [social_apps |-> social_apps, app_sites |-> app_sites, sites |-> sites]
        done == configure_loop([social_apps |-> social_apps, app_sites |-> app_sites,
                                printed |-> <<>>, raised |-> FALSE], site_id, config)
    IN  /\ run' = [sender |-> sender, site_id |-> site_id, config |-> config,
                   repeated |-> (run.sender = sender /\ run.site_id = site_id
                                 /\ run.config = config),
                   before |-> found]
        /\ IF sender # "django_app"
           THEN /\ printed' = <<>>
                /\ UNCHANGED <<social_apps, app_sites, sites>>
           ELSE /\ sites' = site_get_or_create(sites, site_id)
                /\ social_apps' = done.social_apps
                /\ app_sites' = done.app_sites
                /\ printed' = IF done.raised THEN done.printed
                              ELSE Append(done.printed, Completed)
        /\ UNCHANGED <<todo_vars, username_vars, config_vars>>
        /\ UNCHANGED <<login_vars, signup_vars, race_vars, run_vars>>

\* the tables before the first run: no SocialApp or one google row made by
\* hand, associated with site 1 or not; no Site or the one the sites
\* framework creates
InitProviders ==
    /\ NoTodos
    /\ NoUsernames
    /\ NoConfig
    /\ NoLogins
    /\ NoSignups
    /\ NoRace
    /\ NoRuns
    /\ printed = <<>>
    /\ run = [sender |-> "", site_id |-> 0, config |-> <<>>, repeated |-> FALSE,
              before |-> [social_apps |-> <<>>, app_sites |-> <<>>, sites |-> {}]]
    /\ sites \in {{}, {Site(1, "example.com", "example.com")}}
    /\ social_apps \in {<<>>, <<SocialApp("google", "Google Test",
                                          <<"o", "l", "d">>, <<"o", "l", "d">>)>>}
    /\ app_sites \in {<<>>} \cup {<<<<1, 1>>>> : x \in {1} \cap {Len(social_apps)}
                                                        \cap {site.id : site \in sites}}

NextProviders ==
    \/ \E config \in ProviderConfigs : configure_social_apps("django_app", 1, config)
    \/ \E config \in OtherSiteConfigs : configure_social_apps("django_app", 2, config)
    \/ \E sender \in Senders \ {"django_app"}, config \in OtherSiteConfigs :
          configure_social_apps(sender, 1, config)

SpecProviders == InitProviders /\ [][NextProviders]_vars

----------------------------------------------------------------------------
(* _read_config_parameter, signals.py.  A mapping (the parsed .env.local,  *)
(* os.environ) is the set of its <<key, value>> items; a value is None or  *)
(* Some(text).                                                             *)

\* spellings of one parameter name the function is called with
ParamNames == {<<"I", "D">>, <<"i", "d">>, <<"I", "d">>, <<"i", "D">>}

\* what dotenv_values can read from .env.local: the upper-case key missing,
\* without a value, with an empty or a real one, and a lower-case key or not
EnvLocalMaps ==
    {upper \cup lower :
        upper \in {{}, {<<<<"I", "D">>, None>>}, {<<<<"I", "D">>, Some(<<>>)>>},
                   {<<<<"I", "D">>, Some(<<"f">>)>>}},
        lower \in {{}, {<<<<"i", "d">>, Some(<<"g">>)>>}}}

\* what os.environ can hold: the upper-case key missing, empty or real, and
\* a lower-case key or not
EnvironMaps ==
    {upper \cup lower :
        upper \in {{}, {<<<<"I", "D">>, Some(<<>>)>>}, {<<<<"I", "D">>, Some(<<"e">>)>>}},
        lower \in {{}, {<<<<"i", "d">>, Some(<<"h">>)>>}}}

\* a name handed on as it was spelt
upper_unchanged(text) == text

\* str.upper(), line 27, on the letters of the parameter names
upper(text) ==
    [i \in 1..Len(text) |->
        CASE text[i] = "i" -> "I"
          [] text[i] = "d" -> "D"
          [] OTHER -> text[i]]

\* mapping.get(key) and os.getenv(key): the value of the key, or None
get(mapping, key) ==
    IF \E item \in mapping : item[1] = key
    THEN (CHOOSE item \in mapping : item[1] = key)[2]
    ELSE None

\* the truth value of an optional text: None and "" are falsy
truthy(value) == value # None /\ value # Some(<<>>)

\* a or b
or(a, b) == IF truthy(a) THEN a ELSE b

\* _read_config_parameter, lines 20-32, as a function of what it reads
_read_config_parameter(exists, local, env, param_name) ==
    LET name == upper(param_name)
        env_map == IF exists THEN local ELSE {}
        value_from_env_local == get(env_map, name)
        value_from_env == get(env, name)
    IN  or(or(value_from_env_local, value_from_env), None)

\* one call, with its result
read_config_parameter(param_name) ==
    /\ reads' = reads \cup
           {[param_name |-> param_name,
             value |-> _read_config_parameter(file_exists, env_local, environ, param_name)]}
    /\ UNCHANGED <<file_exists, env_local, environ>>
    /\ UNCHANGED <<todo_vars, username_vars, social_vars>>
    /\ UNCHANGED <<login_vars, signup_vars, race_vars, run_vars>>

InitConfig ==
    /\ NoTodos
    /\ NoUsernames
    /\ NoSocialApps
    /\ NoLogins
    /\ NoSignups
    /\ NoRace
    /\ NoRuns
    /\ file_exists \in BOOLEAN
    /\ env_local \in EnvLocalMaps
    /\ environ \in EnvironMaps
    /\ reads = {}

NextConfig == \E param_name \in ParamNames : read_config_parameter(param_name)

SpecConfig == InitConfig /\ [][NextConfig]_vars

----------------------------------------------------------------------------
(* CustomSocialAccountAdapter.populate_user, adapters.py.  A dictionary is *)
(* the set of its <<key, value>> items.                                    *)

\* populate_user is called at most this many times
MaxLogins == 2

\* user.email as super().populate_user leaves it: None, empty, or an address
UserEmails == {None, Some(<<>>), Some(<<"a">>)}

\* sociallogin.account.extra_data: None, an empty dictionary, one without
\* 'email', and ones with an email that is None, empty, or an address
ExtraData ==
    {None, Some({}), Some({<<"name", Some(<<"n">>)>>}),
     Some({<<"email", None>>}), Some({<<"email", Some(<<>>)>>}),
     Some({<<"email", Some(<<"b">>)>>}),
     Some({<<"email", Some(<<"b">>)>>, <<"name", Some(<<"n">>)>>})}

\* dict.get(key, default)
get_default(mapping, key, default) ==
    IF \E item \in mapping : item[1] = key
    THEN (CHOOSE item \in mapping : item[1] = key)[2]
    ELSE default

\* the truth value of extra_data: None and {} are falsy
dict_truthy(data) == data # None /\ data[1] # {}

\* a test that does not look at user.email
has_extra_data(email, extra_data) == dict_truthy(extra_data)

\* not user.email and sociallogin.account.extra_data, line 41
email_is_missing(email, extra_data) == ~truthy(email) /\ dict_truthy(extra_data)

\* lines 39-45: the email of the user returned, given the email of the user
\* super().populate_user built
populate_user_email(email, extra_data) ==
    IF email_is_missing(email, extra_data)
    THEN get_default(extra_data[1], "email", Some(<<>>))
    ELSE email

\* one call of populate_user
populate_user(email, extra_data) ==
    /\ Len(logins) < MaxLogins
    /\ logins' = Append(logins, [user_email |-> email, extra_data |-> extra_data,
                                 email |-> populate_user_email(email, extra_data)])
    /\ UNCHANGED <<todo_vars, username_vars, social_vars, config_vars>>
    /\ UNCHANGED <<signup_vars, race_vars, run_vars>>

InitLogins ==
    /\ NoTodos
    /\ NoUsernames
    /\ NoSocialApps
    /\ NoConfig
    /\ NoSignups
    /\ NoRace
    /\ NoRuns
    /\ logins = <<>>

NextLogins ==
    \E email \in UserEmails, extra_data \in ExtraData : populate_user(email, extra_data)

SpecLogins == InitLogins /\ [][NextLogins]_vars

----------------------------------------------------------------------------
(* Two sign-ups that call generate_unique_username at the same time: each  *)
(* query of the loop and the insert of the user is a step of its own, and  *)
(* the steps of the two interleave.                                        *)

\* the sign-ups under way
Signups == {1, 2}

\* the usernames of the rows of the User table
registered_usernames(table) == {table[i] : i \in 1..Len(table)}

\* an insert into a username column without a unique index
user_insert_unchecked(table, username) == Append(table, username)

\* user.save() of a new User: the unique index of User.username refuses a
\* username that a row has (IntegrityError), and the table stays as it was
user_insert(table, username) ==
    IF username \in registered_usernames(table) THEN table ELSE Append(table, username)

\* lines 23-27: the base name is drawn, the counter is 0
signup_draw(p, hex) ==
    /\ signups[p].pc = "start"
    /\ signups' = [signups EXCEPT ![p] = [pc |-> "check", hex |-> hex, counter |-> 0,
                                          username |-> base_username(hex)]]
    /\ UNCHANGED user_table
    /\ UNCHANGED <<todo_vars, username_vars, social_vars, config_vars>>
    /\ UNCHANGED <<login_vars, race_vars, run_vars>>

\* lines 28-32: one test of the while loop, and its body or the return
signup_check(p) ==
    /\ signups[p].pc = "check"
    /\ signups' = [signups EXCEPT ![p] =
           IF username_exists(registered_usernames(user_table), @.username)
           THEN [@ EXCEPT !.counter = @ + 1,
                          !.username = suffixed_username(base_username(signups[p].hex),
                                                         signups[p].counter + 1)]
           ELSE [@ EXCEPT !.pc = "insert"]]
    /\ UNCHANGED user_table
    /\ UNCHANGED <<todo_vars, username_vars, social_vars, config_vars>>
    /\ UNCHANGED <<login_vars, race_vars, run_vars>>

\* the caller saves a user with the username returned
signup_insert(p) ==
    /\ signups[p].pc = "insert"
    /\ user_table' = user_insert(user_table, signups[p].username)
    /\ signups' = [signups EXCEPT ![p].pc =
                       IF user_table' = user_table THEN "rejected" ELSE "saved"]
    /\ UNCHANGED <<todo_vars, username_vars, social_vars, config_vars>>
    /\ UNCHANGED <<login_vars, race_vars, run_vars>>

InitSignups ==
    /\ NoTodos
    /\ NoUsernames
    /\ NoSocialApps
    /\ NoConfig
    /\ NoLogins
    /\ NoRace
    /\ NoRuns
    /\ user_table \in {<<>>} \cup {<<name>> : name \in PriorNames}
    /\ signups = [p \in Signups |-> [pc |-> "start", hex |-> <<>>, counter |-> 0,
                                     username |-> <<>>]]

NextSignups ==
    \/ \E p \in Signups, hex \in UuidHex : signup_draw(p, hex)
    \/ \E p \in Signups : signup_check(p)
    \/ \E p \in Signups : signup_insert(p)

SpecSignups == InitSignups /\ [][NextSignups]_vars

----------------------------------------------------------------------------
(* Two requests of toggle_todo, delete_todo or restore_todo on one row at  *)
(* the same time, views.py lines 29-69: the query of get_object_or_404,    *)
(* the assignments to the instance in memory and todo.save() are steps of  *)
(* their own, and the steps of the two requests interleave.                *)

\* the requests under way
Workers == {1, 2}

\* the views that load a row, assign to it and save it
RowViews == {"toggle", "delete", "restore"}

\* get_object_or_404 of the view
row_lookup(view, store, todo_id, user) ==
    CASE view = "toggle" -> toggle_todo_lookup(store, todo_id, user)
      [] view = "delete" -> delete_todo_lookup(store, todo_id, user)
      [] view = "restore" -> restore_todo_lookup(store, todo_id, user)

\* whether the view's assignments read timezone.now()
reads_clock(view, instance) ==
    \/ view = "delete"
    \/ view = "toggle" /\ ~is_done(instance)

\* the assignments of the view to the instance it loaded
row_assign(view, instance, t) ==
    CASE view = "toggle" -> toggle_todo_assign(instance, t)
      [] view = "delete" -> delete_todo_assign(instance, t)
      [] view = "restore" -> restore_todo_assign(instance)

\* a save that writes only the columns the request assigned a new value to
save_changed_columns(stored, instance, loaded) ==
    [column \in DOMAIN stored |->
        IF instance[column] # loaded[column] THEN instance[column] ELSE stored[column]]

\* todo.save() of a loaded instance: an UPDATE of every column of the row
\* with the values of the instance, whatever the row holds by now and
\* whatever the instance held when it was loaded
save(stored, instance, loaded) == instance

\* todo = get_object_or_404(...): the row is loaded, or the request ends with 404
worker_get(w, view, user, todo_id) ==
    /\ workers[w].pc = "start"
    /\ workers' = [workers EXCEPT ![w] =
           IF row_lookup(view, todos, todo_id, user)
           THEN [pc |-> "loaded", view |-> view, user |-> user, todo_id |-> todo_id,
                 loaded |-> todos[todo_id], instance |-> todos[todo_id], t |-> 0]
           ELSE [@ EXCEPT !.pc = "not_found", !.view = view, !.user = user,
                          !.todo_id = todo_id]]
    /\ UNCHANGED <<todos, next_id, now, request, response, before, writes, last_writer>>
    /\ UNCHANGED <<username_vars, social_vars, config_vars, login_vars, signup_vars, run_vars>>

\* the assignments between the lookup and the save
worker_assign(w) ==
    /\ workers[w].pc = "loaded"
    /\ workers' = [workers EXCEPT ![w] =
           [@ EXCEPT !.pc = "assigned",
                     !.instance = row_assign(workers[w].view, workers[w].loaded, now),
                     !.t = IF reads_clock(workers[w].view, workers[w].loaded)
                           THEN now ELSE 0]]
    /\ now' = IF reads_clock(workers[w].view, workers[w].loaded) THEN now + 1 ELSE now
    /\ UNCHANGED <<todos, next_id, request, response, before, writes, last_writer>>
    /\ UNCHANGED <<username_vars, social_vars, config_vars, login_vars, signup_vars, run_vars>>

\* todo.save()
worker_save(w) ==
    /\ workers[w].pc = "assigned"
    /\ todos' = [todos EXCEPT ![workers[w].todo_id] =
                     save(@, workers[w].instance, workers[w].loaded)]
    /\ workers' = [workers EXCEPT ![w].pc = "saved"]
    /\ last_writer' = w
    /\ UNCHANGED <<next_id, now, request, response, before, writes>>
    /\ UNCHANGED <<username_vars, social_vars, config_vars, login_vars, signup_vars, run_vars>>

\* one row of u1, made at time 1, done or not (at time 2), trashed or not
\* (at time 3), and two requests about to arrive
InitRace ==
    /\ NoUsernames
    /\ NoSocialApps
    /\ NoConfig
    /\ NoLogins
    /\ NoSignups
    /\ NoRuns
    /\ \E done \in {None, Some(2)}, deleted \in {None, Some(3)} :
           todos = <<[new_todo("u1", <<"a">>, 1) EXCEPT !.marked_as_done_at = done,
                                                        !.deleted_at = deleted]>>
    /\ next_id = 2
    /\ now = 4
    /\ request = Request("none", "GET", AnonymousUser, 0, Absent)
    /\ response = Response(0, "-", NoMessage, <<>>)
    /\ before = [todos |-> <<>>, next_id |-> 1, now |-> 1]
    /\ writes = <<>>
    /\ workers = [w \in Workers |->
                     [pc |-> "start", view |-> "", user |-> "", todo_id |-> 0,
                      loaded |-> <<>>, instance |-> <<>>, t |-> 0]]
    /\ last_writer = 0

NextRace ==
    \/ \E w \in Workers, view \in RowViews, user \in Users, todo_id \in DOMAIN todos :
          worker_get(w, view, user, todo_id)
    \/ \E w \in Workers : worker_assign(w)
    \/ \E w \in Workers : worker_save(w)

SpecRace == InitRace /\ [][NextRace]_vars

----------------------------------------------------------------------------
(* Two runs of the views side by side.  A run is the Todo table, the id    *)
(* counter and the clock; serve is a view of views.py as a function of the *)
(* run and the request, giving the run afterwards and the response.        *)

\* the user whose requests differ between the runs, and the user who observes
U1 == "u1"
U2 == "u2"

\* the two runs
RunNames == {"A", "B"}

\* the run after a row was written
with_row(store, todo_id, row, reads_now) ==
    [store EXCEPT !.todos = [i \in DOMAIN store.todos \cup {todo_id} |->
                                IF i = todo_id THEN row ELSE store.todos[i]],
                  !.next_id = IF todo_id \in DOMAIN store.todos THEN @ ELSE @ + 1,
                  !.now = IF reads_now THEN @ + 1 ELSE @]

\* todo_list, lines 11-27
serve_todo_list(store, req) ==
    LET content == strip(post_get_content(req.content))
    IN  IF ~is_authenticated(req.user)
        THEN [store |-> store, response |-> Response(200, "login.html", NoMessage, <<>>)]
        ELSE IF req.method = "POST" /\ content # <<>>
        THEN [store |-> with_row(store, insert_id(store.todos, store.next_id),
                                 new_todo(req.user, content, store.now), TRUE),
              response |-> Redirect("todo_list", AddedMessage)]
        ELSE [store |-> store,
              response |-> Response(200, "todo_list.html",
                                    IF req.method = "POST" THEN EmptyMessage ELSE NoMessage,
                                    ListActive(store.todos, req.user))]

\* trash, lines 55-59
serve_trash(store, req) ==
    [store |-> store,
     response |-> IF ~is_authenticated(req.user) THEN RedirectToLogin
                  ELSE Response(200, "trash.html", NoMessage,
                                ListTrashed(store.todos, req.user))]

\* toggle_todo, delete_todo and restore_todo, lines 29-53 and 61-69
serve_row_view(store, req) ==
    LET view == req.path
        row == store.todos[req.todo_id]
    IN  IF req.method # "POST" THEN [store |-> store, response |-> MethodNotAllowed]
        ELSE IF ~is_authenticated(req.user)
        THEN [store |-> store, response |-> RedirectToLogin]
        ELSE IF ~row_lookup(view, store.todos, req.todo_id, req.user)
        THEN [store |-> store, response |-> NotFound]
        ELSE [store |-> with_row(store, req.todo_id, row_assign(view, row, store.now),
                                 reads_clock(view, row)),
              response |->
                  CASE view = "toggle" ->
                           Redirect("todo_list",
                                    IF is_done(row) THEN NotDoneMessage ELSE DoneMessage)
                    [] view = "delete" -> Redirect("todo_list", TrashedMessage)
                    [] view = "restore" -> Redirect("trash", RestoredMessage)]

\* the URL patterns of urls.py
serve(store, req) ==
    CASE req.path = "" -> serve_todo_list(store, req)
      [] req.path = "trash" -> serve_trash(store, req)
      [] req.path \in RowViews -> serve_row_view(store, req)

\* the bounds of the model let the run take the request
can_serve(store, req) ==
    LET after == serve(store, req).store
    IN  /\ after.next_id <= MaxTodos + 1
        /\ after.now <= MaxTime + 1

\* the requests of one user: a row made with a text or refused for a blank
\* one, the two pages, and the three views of a row for every id
RequestsOf(user) ==
    {Request("", "POST", user, 0, content) : content \in {{<<"a">>}, {<<" ">>}}}
    \cup {Request(path, "GET", user, 0, Absent) : path \in {"", "trash"}}
    \cup {Request(view, "POST", user, todo_id, Absent) :
             view \in RowViews, todo_id \in TodoIds}

\* the ids of the user's rows, oldest first
RECURSIVE ids_in_order(_)
ids_in_order(ids) ==
    IF ids = {} THEN <<>>
    ELSE LET first == CHOOSE i \in ids : \A j \in ids : i <= j
         IN  <<first>> \o ids_in_order(ids \ {first})

own_ids(store, user) ==
    ids_in_order({i \in DOMAIN store.todos : store.todos[i].user = user})

\* the two ids mean the same to the user in the two runs: the row the user
\* made k-th in each, or in both a row that is not the user's or no row
corresponding(user, id_a, id_b) ==
    LET own_a == own_ids(runs["A"], user)
        own_b == own_ids(runs["B"], user)
    IN  \/ \E k \in 1..Len(own_a) : k <= Len(own_b) /\ own_a[k] = id_a /\ own_b[k] = id_b
        \/ /\ \A k \in 1..Len(own_a) : own_a[k] # id_a
           /\ \A k \in 1..Len(own_b) : own_b[k] # id_b

\* a request of U1 in one of the runs only
request_in_one_run(name, req) ==
    /\ can_serve(runs[name], req)
    /\ runs' = [runs EXCEPT ![name] = serve(@, req).store]
    /\ UNCHANGED <<todo_vars, username_vars, social_vars, config_vars>>
    /\ UNCHANGED <<login_vars, signup_vars, race_vars>>

\* the same request of U2 in both runs, naming in each the id that means
\* the same to U2
request_in_both_runs(req, id_b) ==
    LET req_b == [req EXCEPT !.todo_id = id_b]
    IN  /\ req.path \in RowViews => corresponding(req.user, req.todo_id, id_b)
        /\ req.path \notin RowViews => id_b = 0
        /\ can_serve(runs["A"], req)
        /\ can_serve(runs["B"], req_b)
        /\ runs' = [runs EXCEPT !["A"] = serve(@, req).store,
                                 !["B"] = serve(@, req_b).store]
        /\ UNCHANGED <<todo_vars, username_vars, social_vars, config_vars>>
        /\ UNCHANGED <<login_vars, signup_vars, race_vars>>

InitRuns ==
    /\ NoTodos
    /\ NoUsernames
    /\ NoSocialApps
    /\ NoConfig
    /\ NoLogins
    /\ NoSignups
    /\ NoRace
    /\ runs = [name \in RunNames |-> [todos |-> <<>>, next_id |-> 1, now |-> 1]]

NextRuns ==
    \/ \E name \in RunNames, req \in RequestsOf(U1) : request_in_one_run(name, req)
    \/ \E req \in RequestsOf(U2), id_b \in {0} \cup TodoIds : request_in_both_runs(req, id_b)

SpecRuns == InitRuns /\ [][NextRuns]_vars

----------------------------------------------------------------------------
(* Properties of the Todo views.  A state holds the last request, its      *)
(* response, and in `before` what the request found, so a property of one  *)
(* request is a predicate of the state right after it.                     *)

Range(seq) == {seq[k] : k \in 1..Len(seq)}

\* the request handled last was a POST of a logged-in user to path
PostBy(path) ==
    /\ request.path = path
    /\ request.method = "POST"
    /\ request.user \in Users

\* the requests that address a row by its id: toggle, edit, delete, restore
IdPaths == {"toggle", "edit", "delete", "restore"}

\* the text has no character that is not whitespace
Blank(t) == \A k \in 1..Len(t) : t[k] \in Whitespace

\* s is t without its leading and trailing whitespace
IsTrimOf(s, t) ==
    /\ s # <<>>
    /\ Head(s) \notin Whitespace
    /\ s[Len(s)] \notin Whitespace
    /\ \E a \in 0..Len(t), b \in 0..Len(t) :
          /\ a + b <= Len(t)
          /\ s = SubSeq(t, a + 1, Len(t) - b)
          /\ \A k \in 1..a : t[k] \in Whitespace
          /\ \A k \in (Len(t) - b + 1)..Len(t) : t[k] \in Whitespace

\* C1: a logged-in user who names the id of a row of another user in a
\* toggle, edit, delete or restore request gets 404, and the row keeps its
\* content, marked_as_done_at and deleted_at.
C1_OtherOwnerNotFound ==
    \A id \in DOMAIN before.todos :
        ( /\ \E path \in IdPaths : PostBy(path)
          /\ request.todo_id = id
          /\ before.todos[id].user # request.user )
        => /\ response = NotFound
           /\ id \in DOMAIN todos
           /\ todos[id].content = before.todos[id].content
           /\ todos[id].marked_as_done_at = before.todos[id].marked_as_done_at
           /\ todos[id].deleted_at = before.todos[id].deleted_at

\* a user asked to toggle a done row of another user and got 404
C1_Witness ==
    /\ PostBy("toggle")
    /\ request.todo_id \in DOMAIN before.todos
    /\ before.todos[request.todo_id].user # request.user
    /\ before.todos[request.todo_id].marked_as_done_at # None
    /\ response = NotFound

\* C2: the active listing of an owner holds exactly the rows of that owner
\* with deleted_at null, the trash listing exactly the rows of that owner with
\* deleted_at not null, each row once; and that is what the two pages show.
C2_ListingsExact ==
    /\ \A u \in Users :
          /\ Range(ListActive(todos, u)) =
                {i \in DOMAIN todos : todos[i].user = u /\ todos[i].deleted_at = None}
          /\ Len(ListActive(todos, u)) = Cardinality(Range(ListActive(todos, u)))
          /\ Range(ListTrashed(todos, u)) =
                {i \in DOMAIN todos : todos[i].user = u /\ todos[i].deleted_at # None}
          /\ Len(ListTrashed(todos, u)) = Cardinality(Range(ListTrashed(todos, u)))
    /\ response.target = "todo_list.html" =>
          Range(response.listing) =
             {i \in DOMAIN todos : todos[i].user = request.user /\ todos[i].deleted_at = None}
    /\ response.target = "trash.html" =>
          Range(response.listing) =
             {i \in DOMAIN todos : todos[i].user = request.user /\ todos[i].deleted_at # None}

\* the trash page showed a row while the table also held a row it must not show
C2_Witness ==
    /\ response.target = "trash.html"
    /\ response.listing # <<>>
    /\ DOMAIN todos \ Range(response.listing) # {}

\* C3: a create request whose content is missing, empty or only whitespace
\* is answered with the "cannot be empty" error and the table is as before.
C3_BlankCreateRejected ==
    ( /\ PostBy("")
      /\ \A t \in request.content : Blank(t) )
    => /\ response.message = EmptyMessage
       /\ response.status = 200
       /\ todos = before.todos
       /\ next_id = before.next_id

\* a whitespace-only content was rejected while the table held a row
C3_Witness ==
    /\ PostBy("")
    /\ request.content = {<<" ", " ">>}
    /\ response.message = EmptyMessage
    /\ todos # <<>>

\* C4: a create request whose content has a character that is not
\* whitespace adds one row under an id no row had, owned by the caller, with
\* the trimmed content, not done and not trashed; the rows that were there are
\* as before; the new row is first in the caller's active listing.
C4_CreateAddsOneRow ==
    ( /\ PostBy("")
      /\ \E t \in request.content : ~Blank(t) )
    => \E id \in DOMAIN todos \ DOMAIN before.todos :
          /\ DOMAIN todos = DOMAIN before.todos \cup {id}
          /\ todos[id].user = request.user
          /\ \A t \in request.content : IsTrimOf(todos[id].content, t)
          /\ todos[id].marked_as_done_at = None
          /\ todos[id].deleted_at = None
          /\ \A j \in DOMAIN before.todos : todos[j] = before.todos[j]
          /\ ListActive(todos, request.user) # <<>>
          /\ Head(ListActive(todos, request.user)) = id
          /\ response = Redirect("todo_list", AddedMessage)

\* a padded content was stored trimmed, ahead of an older active row of the caller
C4_Witness ==
    /\ PostBy("")
    /\ request.content = {<<" ", "a", " ">>}
    /\ response.message = AddedMessage
    /\ Len(ListActive(todos, request.user)) >= 2

\* C5: a toggle request of the owner flips the row: not done becomes done at
\* the time of the request, done becomes not done; the row's content and
\* deleted_at, and every other row, are as before.
C5_ToggleFlips ==
    ( /\ PostBy("toggle")
      /\ request.todo_id \in DOMAIN before.todos
      /\ before.todos[request.todo_id].user = request.user )
    => LET id == request.todo_id
           was == before.todos[id]
       IN  /\ DOMAIN todos = DOMAIN before.todos
           /\ was.marked_as_done_at = None
                 => todos[id].marked_as_done_at = Some(before.now)
           /\ was.marked_as_done_at # None
                 => todos[id].marked_as_done_at = None
           /\ todos[id].content = was.content
           /\ todos[id].deleted_at = was.deleted_at
           /\ \A j \in DOMAIN before.todos \ {id} : todos[j] = before.todos[j]

\* a done row was toggled to not done while another row existed
C5_Witness ==
    /\ PostBy("toggle")
    /\ response.message = NotDoneMessage
    /\ before.todos[request.todo_id].marked_as_done_at # None
    /\ Cardinality(DOMAIN todos) >= 2

\* C6: a delete request that succeeds keeps the row: it is still in the
\* table, its deleted_at is set, it is out of the owner's active listing and
\* in the owner's trash listing, and its content and marked_as_done_at are as
\* before.
C6_SoftDeleteKeepsRow ==
    ( /\ PostBy("delete")
      /\ response = Redirect("todo_list", TrashedMessage) )
    => LET id == request.todo_id
       IN  /\ id \in DOMAIN before.todos
           /\ id \in DOMAIN todos
           /\ todos[id].deleted_at # None
           /\ id \notin Range(ListActive(todos, request.user))
           /\ id \in Range(ListTrashed(todos, request.user))
           /\ todos[id].content = before.todos[id].content
           /\ todos[id].marked_as_done_at = before.todos[id].marked_as_done_at

\* a done, active row was moved to the trash
C6_Witness ==
    /\ PostBy("delete")
    /\ response = Redirect("todo_list", TrashedMessage)
    /\ before.todos[request.todo_id].deleted_at = None
    /\ before.todos[request.todo_id].marked_as_done_at # None

\* C7: a restore request of a logged-in user for an id no row has, or for a
\* row of the caller that is not trashed, gets 404 and the table is as before.
C7_RestoreNotTrashedNotFound ==
    ( /\ PostBy("restore")
      /\ \/ request.todo_id \notin DOMAIN before.todos
         \/ /\ before.todos[request.todo_id].user = request.user
            /\ before.todos[request.todo_id].deleted_at = None )
    => /\ response = NotFound
       /\ todos = before.todos

\* the owner asked to restore a row that was not trashed
C7_Witness ==
    /\ PostBy("restore")
    /\ request.todo_id \in DOMAIN before.todos
    /\ before.todos[request.todo_id].user = request.user
    /\ before.todos[request.todo_id].deleted_at = None
    /\ response = NotFound

\* the last two writes to existing rows were made by the views at paths
\* first and second, in that order, to the same row
LastTwoWrites(first, second) ==
    /\ Len(writes) = 2
    /\ writes[1].path = first
    /\ writes[2].path = second
    /\ writes[1].todo_id = writes[2].todo_id

\* C8: when a row is trashed and then restored, with no write to a row in
\* between, it is in its owner's active listing and not in the trash listing,
\* its deleted_at is null, and its marked_as_done_at and content are what they
\* were before it was trashed.
C8_DeleteRestoreRoundTrip ==
    LastTwoWrites("delete", "restore")
    => LET id == writes[1].todo_id
           was == writes[1].row
       IN  /\ todos[id].deleted_at = None
           /\ todos[id].marked_as_done_at = was.marked_as_done_at
           /\ todos[id].content = was.content
           /\ id \in Range(ListActive(todos, was.user))
           /\ id \notin Range(ListTrashed(todos, was.user))

\* a done row was trashed and restored
C8_Witness ==
    /\ LastTwoWrites("delete", "restore")
    /\ writes[1].row.marked_as_done_at # None
    /\ PostBy("restore")
    /\ response = Redirect("trash", RestoredMessage)

\* C9: a request answered with the "cannot be empty" error or with 404 wrote
\* nothing: the table and its id counter are as the request found them.
C9_FailedRequestWritesNothing ==
    (response.message = EmptyMessage \/ response.status = 404)
    => /\ todos = before.todos
       /\ next_id = before.next_id

\* a delete request for a row of another user failed
C9_Witness ==
    /\ PostBy("delete")
    /\ response.status = 404
    /\ request.todo_id \in DOMAIN before.todos
    /\ before.todos[request.todo_id].user # request.user

\* C10: after two toggles of a row with no write to a row in between, its
\* marked_as_done_at is null exactly if it was null before the first toggle.
C10_ToggleTwice ==
    LastTwoWrites("toggle", "toggle")
    => LET id == writes[1].todo_id
       IN  (todos[id].marked_as_done_at = None)
              <=> (writes[1].row.marked_as_done_at = None)

\* a done row was toggled twice and is done again, at a later time
C10_Witness ==
    /\ LastTwoWrites("toggle", "toggle")
    /\ writes[1].row.marked_as_done_at # None
    /\ todos[writes[1].todo_id].marked_as_done_at # None
    /\ todos[writes[1].todo_id].marked_as_done_at # writes[1].row.marked_as_done_at

\* C11: an edit request of a logged-in user for a row of the caller with
\* blank new content is answered with the "cannot be empty" error and changes
\* nothing; with other new content it replaces the row's content by the
\* trimmed new content and leaves created_at, marked_as_done_at and
\* deleted_at; for an id that is not a row of the caller it gets 404.
C11_EditReplacesContent ==
    PostBy("edit")
    => LET id == request.todo_id
           own == id \in DOMAIN before.todos /\ before.todos[id].user = request.user
       IN  IF ~own
           THEN response = NotFound
           ELSE IF \A t \in request.content : Blank(t)
           THEN /\ response.message = EmptyMessage
                /\ todos = before.todos
           ELSE /\ \A t \in request.content : IsTrimOf(todos[id].content, t)
                /\ todos[id].created_at = before.todos[id].created_at
                /\ todos[id].marked_as_done_at = before.todos[id].marked_as_done_at
                /\ todos[id].deleted_at = before.todos[id].deleted_at

\* C19: a request without a logged-in user, to any of the five routes,
\* leaves the table and its id counter as it found them and shows no row.
C19_AnonymousReachesNothing ==
    request.user = AnonymousUser
    => /\ todos = before.todos
       /\ next_id = before.next_id
       /\ response.listing = <<>>
       /\ response.message = NoMessage

\* an anonymous create request with good content, while the table held a row
C19_Witness ==
    /\ request.user = AnonymousUser
    /\ request.path = ""
    /\ request.method = "POST"
    /\ request.content = {<<"a">>}
    /\ todos # <<>>
    /\ response.target = "login.html"

\* the listing puts no row before a row created later
NewestFirst(listing) ==
    \A i \in 1..Len(listing), j \in 1..Len(listing) :
        i < j => todos[listing[i]].created_at > todos[listing[j]].created_at

----------------------------------------------------------------------------
(* Properties of generate_unique_username *)

\* the name starts with user_
IsGenerated(name) == Len(name) >= 5 /\ SubSeq(name, 1, 5) = <<"u", "s", "e", "r", "_">>

Digits == {"0", "1", "2", "3", "4", "5", "6", "7", "8", "9"}

\* 'user_' and 8 hex characters, 13 characters in all, or that and a numeric suffix
WellFormed(name) ==
    /\ IsGenerated(name)
    /\ Len(name) >= 13
    /\ \A i \in 6..13 : name[i] \in HexDigits
    /\ Len(name) > 13 =>
          /\ Len(name) >= 15
          /\ name[14] = "_"
          /\ \A i \in 15..Len(name) : name[i] \in Digits

\* the first call found no registered user_ name
NoPriorGenerated == \A name \in calls[1].registered : ~IsGenerated(name)

\* every name returned was registered before the next call
EachRegistered == \A i \in 1..(Len(calls) - 1) : calls[i].name \in calls[i + 1].registered

PairwiseDistinct == \A i, j \in 1..Len(calls) : i # j => calls[i].name # calls[j].name

Numeral(k) == <<<<"1">>, <<"2">>, <<"3">>, <<"4">>, <<"5">>, <<"6">>, <<"7">>, <<"8">>>>[k]

\* C13: a call that draws base name B returns B if B is not registered, and
\* otherwise B_k for the least k >= 1 with B_k not registered; the name
\* returned is not registered at the call.
C13_LeastFreeSuffix ==
    \A i \in 1..Len(calls) :
        LET B == <<"u", "s", "e", "r", "_">> \o SubSeq(calls[i].hex, 1, 8)
            R == calls[i].registered
            Bk(k) == B \o <<"_">> \o Numeral(k)
        IN  /\ B \notin R => calls[i].name = B
            /\ B \in R =>
                  \E k \in 1..(Cardinality(R) + 1) :
                      /\ calls[i].name = Bk(k)
                      /\ \A j \in 1..(k - 1) : Bk(j) \in R
            /\ calls[i].name \notin R

\* B and B_1 were registered and the call returned B_2
C13_Witness ==
    \E i \in 1..Len(calls) :
        LET B == <<"u", "s", "e", "r", "_">> \o SubSeq(calls[i].hex, 1, 8)
        IN  /\ B \in calls[i].registered
            /\ B \o <<"_", "1">> \in calls[i].registered
            /\ calls[i].name = B \o <<"_", "2">>

----------------------------------------------------------------------------
(* Properties of configure_social_apps *)

\* the last run was one for django_app
Ran == run.sender = "django_app"

\* the entries of the last run's configuration
RunEntries == {run.config[i] : i \in 1..Len(run.config)}

\* the ids of the provider's rows in a SocialApp table
AppsOf(table, provider_id) == {id \in 1..Len(table) : table[id].provider = provider_id}

\* the relation rows of the provider's apps, by position
SitesOf(table, relation, provider_id) ==
    {i \in 1..Len(relation) : relation[i][1] \in AppsOf(table, provider_id)}

\* the last run left the provider's rows and their site relation as it found them
Untouched(provider_id) ==
    /\ AppsOf(social_apps, provider_id) = AppsOf(run.before.social_apps, provider_id)
    /\ \A id \in AppsOf(social_apps, provider_id) :
           social_apps[id] = run.before.social_apps[id]
    /\ SitesOf(social_apps, app_sites, provider_id)
           = SitesOf(run.before.social_apps, run.before.app_sites, provider_id)
    /\ \A i \in SitesOf(social_apps, app_sites, provider_id) :
           app_sites[i] = run.before.app_sites[i]

\* the messages of the last run
Printed == {printed[i] : i \in 1..Len(printed)}

Missing(credential) == credential = <<>> \/ credential = <<<<>>>>

\* the credential is a text that begins with your_
Placeholder(credential) ==
    /\ credential # <<>>
    /\ Len(credential[1]) >= 5
    /\ \A i \in 1..5 : credential[1][i] = <<"y", "o", "u", "r", "_">>[i]

Valid(entry) ==
    /\ ~Missing(entry.client_id) /\ ~Missing(entry.client_secret)
    /\ ~Placeholder(entry.client_id) /\ ~Placeholder(entry.client_secret)

\* C14: an entry whose client_id or client_secret is empty or absent is
\* skipped: its provider's rows and their site relation stay as they were,
\* and 'credentials not provided' is printed for it.
C14_MissingCredentialsSkipped ==
    Ran => \A entry \in RunEntries :
        (Missing(entry.client_id) \/ Missing(entry.client_secret))
        => /\ Untouched(entry.provider_id)
           /\ <<"Skipping", entry.name, "credentials not provided">> \in Printed
           /\ <<"Created", entry.name, "SocialApp">> \notin Printed
           /\ <<"Updated", entry.name, "SocialApp">> \notin Printed

\* a run with an entry whose client_id is empty and whose secret is real,
\* the provider having a row already
C14_Witness ==
    /\ Ran
    /\ \E entry \in RunEntries :
          /\ entry.client_id = <<<<>>>>
          /\ Valid([entry EXCEPT !.client_id = <<<<"i", "d", "1">>>>])
          /\ AppsOf(run.before.social_apps, entry.provider_id) # {}

\* C15 as stated: an entry with a credential that starts with 'your_' is
\* skipped and 'placeholder credentials detected' is printed for it.
C15_PlaceholderSkipped ==
    Ran => \A entry \in RunEntries :
        (Placeholder(entry.client_id) \/ Placeholder(entry.client_secret))
        => /\ Untouched(entry.provider_id)
           /\ <<"Skipping", entry.name, "placeholder credentials detected">> \in Printed

\* C15, amended: an entry with both credentials present and non-empty and
\* one of them starting with 'your_' is skipped, its provider's rows stay as
\* they were, and 'placeholder credentials detected' is printed for it; an
\* entry with a placeholder and a missing credential is skipped as well,
\* with the notice of the missing credential.
C15_PresentPlaceholderSkipped ==
    Ran => \A entry \in RunEntries :
        (Placeholder(entry.client_id) \/ Placeholder(entry.client_secret))
        => /\ Untouched(entry.provider_id)
           /\ <<"Created", entry.name, "SocialApp">> \notin Printed
           /\ <<"Updated", entry.name, "SocialApp">> \notin Printed
           /\ (~Missing(entry.client_id) /\ ~Missing(entry.client_secret))
              => <<"Skipping", entry.name, "placeholder credentials detected">> \in Printed

\* a run with an entry whose client id is real and whose secret is a
\* placeholder, the provider having a row already
C15_Witness ==
    /\ Ran
    /\ \E entry \in RunEntries :
          /\ Placeholder(entry.client_secret)
          /\ Valid([entry EXCEPT !.client_secret = <<<<"s", "1">>>>])
          /\ AppsOf(run.before.social_apps, entry.provider_id) # {}

\* C16: after a run, each entry with valid credentials has exactly one row,
\* holding the configured name, client id and secret; 'Created' is printed
\* for it exactly when it had no row before, 'Updated' exactly when it had.
C16_ValidEntryUpserted ==
    Ran => \A entry \in RunEntries :
        Valid(entry)
        => /\ Cardinality(AppsOf(social_apps, entry.provider_id)) = 1
           /\ \A id \in AppsOf(social_apps, entry.provider_id) :
                  /\ social_apps[id].name = entry.name
                  /\ <<social_apps[id].client_id>> = entry.client_id
                  /\ <<social_apps[id].secret>> = entry.client_secret
           /\ <<"Created", entry.name, "SocialApp">> \in Printed
                  <=> AppsOf(run.before.social_apps, entry.provider_id) = {}
           /\ <<"Updated", entry.name, "SocialApp">> \in Printed
                  <=> AppsOf(run.before.social_apps, entry.provider_id) # {}

\* a run that overwrote a row holding another name, client id and secret
C16_Witness ==
    /\ Ran
    /\ \E entry \in RunEntries :
          /\ Valid(entry)
          /\ \E id \in AppsOf(run.before.social_apps, entry.provider_id) :
                /\ run.before.social_apps[id].name # entry.name
                /\ <<run.before.social_apps[id].client_id>> # entry.client_id
                /\ <<run.before.social_apps[id].secret>> # entry.client_secret

\* C17: a run with the arguments of the run before it leaves the three
\* tables as it found them, with exactly one row per valid provider,
\* related to the site exactly once.
C17_RerunIdempotent ==
    (Ran /\ run.repeated)
    => /\ social_apps = run.before.social_apps
       /\ app_sites = run.before.app_sites
       /\ sites = run.before.sites
       /\ \A entry \in RunEntries :
              Valid(entry)
              => /\ Cardinality(AppsOf(social_apps, entry.provider_id)) = 1
                 /\ \A id \in AppsOf(social_apps, entry.provider_id) :
                        Cardinality({i \in 1..Len(app_sites) :
                                        app_sites[i] = <<id, run.site_id>>}) = 1

\* a second run in a row of a configuration with two valid providers
C17_Witness ==
    /\ Ran
    /\ run.repeated
    /\ Len(run.config) = 2
    /\ \A entry \in RunEntries : Valid(entry)

----------------------------------------------------------------------------
(* Properties of _read_config_parameter *)

\* the mapping holds a non-empty text for ID
HoldsNonEmpty(mapping) ==
    \E item \in mapping : item[1] = <<"I", "D">> /\ item[2] # <<>> /\ item[2][1] # <<>>

\* the text the mapping holds for ID
ValueOf(mapping) == (CHOOSE item \in mapping : item[1] = <<"I", "D">>)[2]

\* C18: a call for any spelling of ID returns the .env.local value of ID
\* when the file exists and holds a non-empty one, otherwise the os.environ
\* value of ID when that is non-empty, otherwise None; never the empty
\* string; and the same for every spelling.
C18_ResolutionOrder ==
    \A r \in reads :
        /\ (file_exists /\ HoldsNonEmpty(env_local)) => r.value = ValueOf(env_local)
        /\ (~(file_exists /\ HoldsNonEmpty(env_local)) /\ HoldsNonEmpty(environ))
               => r.value = ValueOf(environ)
        /\ (~(file_exists /\ HoldsNonEmpty(env_local)) /\ ~HoldsNonEmpty(environ))
               => r.value = <<>>
        /\ r.value # <<<<>>>>
        /\ \A q \in reads : q.value = r.value

\* every spelling was read; the file holds an empty value for ID and a value
\* under the lower-case key, and the environment's value was returned
C18_Witness ==
    /\ {r.param_name : r \in reads} = ParamNames
    /\ file_exists
    /\ <<<<"I", "D">>, <<<<>>>>>> \in env_local
    /\ <<<<"i", "d">>, <<<<"g">>>>>> \in env_local
    /\ \A r \in reads : r.value = <<<<"e">>>>

----------------------------------------------------------------------------
(* Properties of the rows' life in the Todo table *)

\* C24: a toggle request of the owner for a trashed row succeeds: it flips
\* marked_as_done_at, leaves deleted_at as it was, and the row stays in the
\* owner's trash listing and out of the active listing.
C24_ToggleTrashedRow ==
    ( /\ PostBy("toggle")
      /\ request.todo_id \in DOMAIN before.todos
      /\ before.todos[request.todo_id].user = request.user
      /\ before.todos[request.todo_id].deleted_at # None )
    => LET id == request.todo_id
           was == before.todos[id]
       IN  /\ response.status = 302
           /\ response.target = "todo_list"
           /\ response.message \in {DoneMessage, NotDoneMessage}
           /\ (todos[id].marked_as_done_at = None) # (was.marked_as_done_at = None)
           /\ todos[id].deleted_at = was.deleted_at
           /\ id \in Range(ListTrashed(todos, request.user))
           /\ id \notin Range(ListActive(todos, request.user))

\* a trashed row that was not done was toggled to done
C24_Witness ==
    /\ PostBy("toggle")
    /\ request.todo_id \in DOMAIN before.todos
    /\ before.todos[request.todo_id].user = request.user
    /\ before.todos[request.todo_id].deleted_at # None
    /\ before.todos[request.todo_id].marked_as_done_at = None
    /\ todos[request.todo_id].marked_as_done_at # None

\* C25: no request removes a row: every id given out so far has its row,
\* the rows a request found are still there, and every row is in exactly one
\* of its owner's active listing and trash listing.
C25_NoHardDelete ==
    /\ DOMAIN todos = 1..(next_id - 1)
    /\ DOMAIN before.todos \subseteq DOMAIN todos
    /\ \A id \in DOMAIN todos :
           (id \in Range(ListActive(todos, todos[id].user)))
               # (id \in Range(ListTrashed(todos, todos[id].user)))

\* a delete request succeeded for one of two rows
C25_Witness ==
    /\ PostBy("delete")
    /\ response = Redirect("todo_list", TrashedMessage)
    /\ Cardinality(DOMAIN todos) = 2
    /\ \E id \in DOMAIN todos : todos[id].deleted_at = None

\* C28: a delete request of the owner for a row that is in the trash
\* already succeeds: the row stays trashed, its deleted_at becomes the time
\* of this request, and its content and marked_as_done_at are as before.
C28_DeleteTrashedRow ==
    ( /\ PostBy("delete")
      /\ request.todo_id \in DOMAIN before.todos
      /\ before.todos[request.todo_id].user = request.user
      /\ before.todos[request.todo_id].deleted_at # None )
    => LET id == request.todo_id
           was == before.todos[id]
       IN  /\ response = Redirect("todo_list", TrashedMessage)
           /\ todos[id].deleted_at = Some(before.now)
           /\ todos[id].deleted_at # was.deleted_at
           /\ todos[id].content = was.content
           /\ todos[id].marked_as_done_at = was.marked_as_done_at

\* a row in the trash was deleted again, later than the first time
C28_Witness ==
    /\ PostBy("delete")
    /\ request.todo_id \in DOMAIN before.todos
    /\ before.todos[request.todo_id].user = request.user
    /\ before.todos[request.todo_id].deleted_at # None
    /\ todos[request.todo_id].deleted_at # before.todos[request.todo_id].deleted_at
    /\ response = Redirect("todo_list", TrashedMessage)

C30_IdentityImmutable ==
    /\ \A id \in DOMAIN before.todos :
           /\ id \in DOMAIN todos
           /\ todos[id].user = before.todos[id].user
           /\ todos[id].created_at = before.todos[id].created_at
    /\ response.message = AddedMessage
           => Cardinality(DOMAIN todos) = Cardinality(DOMAIN before.todos) + 1

\* a row was created while a row of another user existed
C30_Witness ==
    /\ PostBy("")
    /\ response.message = AddedMessage
    /\ \E id \in DOMAIN before.todos : before.todos[id].user # request.user

----------------------------------------------------------------------------
(* Properties of a run of configure_social_apps over several entries *)

\* C23: a skipped entry does not end the run: one line is printed for every
\* entry and then the closing line, and every entry with valid credentials,
\* before or after a skipped one, has its row with the configured values,
\* related to the site, and its 'Created' or 'Updated' line.
C23_SkipDoesNotHalt ==
    Ran =>
        /\ Len(printed) = Len(run.config) + 1
        /\ printed[Len(printed)] = <<"SocialApp configuration completed">>
        /\ \E site \in sites : site.id = run.site_id
        /\ \A entry \in RunEntries :
               Valid(entry) =>
                   /\ \E id \in AppsOf(social_apps, entry.provider_id) :
                          /\ <<social_apps[id].client_id>> = entry.client_id
                          /\ <<social_apps[id].secret>> = entry.client_secret
                          /\ <<id, run.site_id>> \in Range(app_sites)
                   /\ \/ <<"Created", entry.name, "SocialApp">> \in Printed
                      \/ <<"Updated", entry.name, "SocialApp">> \in Printed

\* a run whose first entry was skipped and whose second was created
C23_Witness ==
    /\ Ran
    /\ Len(run.config) = 2
    /\ ~Valid(run.config[1])
    /\ Valid(run.config[2])
    /\ printed[2] = <<"Created", run.config[2].name, "SocialApp">>

----------------------------------------------------------------------------
(* Properties of populate_user *)

\* the value is a text with a character in it
Present(value) == value # <<>> /\ value[1] # <<>>

\* the account data holds this address under 'email'
AccountEmail(extra_data, address) ==
    /\ extra_data # <<>>
    /\ <<"email", address>> \in extra_data[1]
    /\ Present(address)

\* C22: populate_user returns the user with the email it had when it had
\* one; when it had none, with the account's email if the account data holds
\* one, and otherwise with no email.
C22_EmailBackfilled ==
    \A i \in 1..Len(logins) :
        LET call == logins[i]
        IN  /\ Present(call.user_email) => call.email = call.user_email
            /\ ~Present(call.user_email) =>
                   /\ \A address \in {<<<<"b">>>>} :
                          AccountEmail(call.extra_data, address) => call.email = address
                   /\ (~\E address \in {<<<<"b">>>>} : AccountEmail(call.extra_data, address))
                          => ~Present(call.email)

\* a call for a user with an email and account data with another one, and a
\* call for a user without an email that took the account's
C22_Witness ==
    /\ Len(logins) = 2
    /\ logins[1].user_email = <<<<"a">>>>
    /\ AccountEmail(logins[1].extra_data, <<<<"b">>>>)
    /\ logins[2].user_email = <<>>
    /\ logins[2].email = <<<<"b">>>>

----------------------------------------------------------------------------
(* Properties of concurrent sign-ups *)

\* the sign-up has tried its insert
Finished(p) == signups[p].pc \in {"saved", "rejected"}

\* C27: two interleaved sign-ups can be given the same username by
\* generate_unique_username; the rows of the User table still have pairwise
\* distinct usernames, because of two sign-ups that hold the same username
\* the insert of the second is refused.
C27_StoreKeepsUsernamesDistinct ==
    /\ \A i, j \in 1..Len(user_table) : i # j => user_table[i] # user_table[j]
    /\ \A p, q \in Signups :
           (p # q /\ Finished(p) /\ Finished(q)
                  /\ signups[p].username = signups[q].username)
           => {signups[p].pc, signups[q].pc} = {"saved", "rejected"}
    /\ \A p \in Signups :
           signups[p].pc = "saved"
           => Cardinality({i \in 1..Len(user_table) : user_table[i] = signups[p].username}) = 1

\* both sign-ups were given the same username; the first insert was taken,
\* the second refused
C27_Witness ==
    /\ signups[1].username = signups[2].username
    /\ signups[1].pc = "saved"
    /\ signups[2].pc = "rejected"
    /\ signups[1].hex # signups[2].hex

----------------------------------------------------------------------------
(* Properties of interleaved requests on one row *)

\* the row the request of worker w means to leave: the row it loaded with
\* the one column its view assigns
RowMeant(w) ==
    LET loaded == workers[w].loaded
    IN  CASE workers[w].view = "toggle" ->
                 [loaded EXCEPT !.marked_as_done_at =
                      IF loaded.marked_as_done_at = <<>> THEN <<workers[w].t>> ELSE <<>>]
          [] workers[w].view = "delete" -> [loaded EXCEPT !.deleted_at = <<workers[w].t>>]
          [] workers[w].view = "restore" -> [loaded EXCEPT !.deleted_at = <<>>]

\* C26: when requests on one row interleave, the row stored is the row the
\* request that saved last meant to leave, made from the row that request
\* loaded: the last save wins, and what an earlier save changed is kept only
\* if the last request loaded the row after it.
C26_LastSaveWins ==
    last_writer # 0 =>
        /\ workers[last_writer].pc = "saved"
        /\ todos[workers[last_writer].todo_id] = RowMeant(last_writer)

\* the first request marked the row done and saved; the second, which had
\* loaded the row before that, trashed it and saved: the row is not done
C26_Witness ==
    /\ workers[1].pc = "saved" /\ workers[2].pc = "saved"
    /\ last_writer = 2
    /\ workers[1].view = "toggle" /\ workers[2].view = "delete"
    /\ workers[1].instance.marked_as_done_at # <<>>
    /\ todos[1].marked_as_done_at = <<>>
    /\ todos[1].deleted_at # <<>>

----------------------------------------------------------------------------
(* Properties of two runs that differ in the requests of U1 *)

\* what a page shows of the rows it lists: content, done or not, trashed or not
Shown(store, listing) ==
    [k \in 1..Len(listing) |->
        [content |-> store.todos[listing[k]].content,
         done |-> store.todos[listing[k]].marked_as_done_at # <<>>,
         trashed |-> store.todos[listing[k]].deleted_at # <<>>]]

\* success, NotFound or the refusal of blank content, and the page or redirect
Outcome(answer) == <<answer.status, answer.target, answer.message>>

\* the rows of the user in a run, oldest first
OwnIds(store, user) ==
    ids_in_order({i \in DOMAIN store.todos : store.todos[i].user = user})

\* the requests of U2 that the bounds let both runs take, with the id each
\* names in run B
PairsOfU2 ==
    {pair \in RequestsOf(U2) \X ({0} \cup TodoIds) :
        /\ pair[1].path \notin RowViews => pair[2] = 0
        /\ pair[1].path \in RowViews => pair[2] # 0
        /\ can_serve(runs["A"], pair[1])
        /\ can_serve(runs["B"], [pair[1] EXCEPT !.todo_id = pair[2]])}

\* C21 as stated: whatever U1 did in either run, a request of U2 has the
\* same outcome in both runs.
C21_SameRequestSameOutcome ==
    \A pair \in PairsOfU2 :
        (pair[1].path \in RowViews => pair[2] = pair[1].todo_id)
        => Outcome(serve(runs["A"], pair[1]).response)
               = Outcome(serve(runs["B"], [pair[1] EXCEPT !.todo_id = pair[2]]).response)

\* C21, amended: whatever U1 did in either run, U2 has the same rows in
\* both, up to their ids; a request of U2 that names in each run the id of
\* the row U2 made k-th, or in each run an id that is not of a row of U2,
\* has the same outcome and shows the same rows in both; and an id of a row
\* of U1 gives U2 NotFound like an id of no row.
C21_SameOutcomeUpToIds ==
    /\ Shown(runs["A"], OwnIds(runs["A"], U2)) = Shown(runs["B"], OwnIds(runs["B"], U2))
    /\ \A pair \in PairsOfU2 :
           LET in_a == serve(runs["A"], pair[1])
               in_b == serve(runs["B"], [pair[1] EXCEPT !.todo_id = pair[2]])
               own_a == OwnIds(runs["A"], U2)
               own_b == OwnIds(runs["B"], U2)
               same_row == \E k \in 1..Len(own_a) :
                               own_a[k] = pair[1].todo_id /\ own_b[k] = pair[2]
               no_row == /\ pair[1].todo_id \notin Range(own_a)
                         /\ pair[2] \notin Range(own_b)
           IN  /\ (pair[1].path \in RowViews /\ no_row)
                      => in_a.response = NotFound /\ in_b.response = NotFound
               /\ (pair[1].path \notin RowViews \/ same_row \/ no_row)
                      => /\ Outcome(in_a.response) = Outcome(in_b.response)
                         /\ Shown(runs["A"], in_a.response.listing)
                                = Shown(runs["B"], in_b.response.listing)
                         /\ Shown(in_a.store, OwnIds(in_a.store, U2))
                                = Shown(in_b.store, OwnIds(in_b.store, U2))

\* run A has a row of U1 and run B has none, so that the row of U2, done in
\* both runs, has another id in each
C21_Witness ==
    /\ \E id \in DOMAIN runs["A"].todos : runs["A"].todos[id].user = U1
    /\ \A id \in DOMAIN runs["B"].todos : runs["B"].todos[id].user = U2
    /\ Len(OwnIds(runs["A"], U2)) = 1
    /\ OwnIds(runs["A"], U2) # OwnIds(runs["B"], U2)
    /\ runs["A"].todos[OwnIds(runs["A"], U2)[1]].marked_as_done_at # <<>>

----------------------------------------------------------------------------
(* Stored content *)

\* C31: in every state the views can reach, the content of every stored row
\* is non-empty and neither starts nor ends with whitespace.
C31_StoredContentTrimmed ==
    \A id \in DOMAIN todos :
        LET content == todos[id].content
        IN  /\ Len(content) > 0
            /\ content[1] \notin Whitespace
            /\ content[Len(content)] \notin Whitespace

\* two rows are stored, one created from padded input and one whose content
\* has whitespace inside, and the last request carried padded content
C31_Witness ==
    /\ \E id \in DOMAIN todos : todos[id].content = <<"a">>
    /\ \E id \in DOMAIN todos : todos[id].content = <<"a", " ", "b">>
    /\ request.path = ""
    /\ request.method = "POST"
    /\ request.content = {<<" ", "a", " ">>}
    /\ response.message = AddedMessage

----------------------------------------------------------------------------
(* A skipped entry and the registration an earlier run made *)

\* the pairs <<app id, site id>> of the relation that belong to this app
SitePairsOf(relation, id) == {i \in 1..Len(relation) : relation[i][1] = id}

\* C32: a run that skips an entry, for a missing or a placeholder credential,
\* leaves every row the provider had before the run in place, with its name,
\* client id and secret, and related to the sites it was related to.
C32_SkipKeepsRegistration ==
    Ran => \A entry \in RunEntries :
        ( \/ Missing(entry.client_id) \/ Missing(entry.client_secret)
          \/ Placeholder(entry.client_id) \/ Placeholder(entry.client_secret) )
        => \A id \in 1..Len(run.before.social_apps) :
               run.before.social_apps[id].provider = entry.provider_id
               => /\ id <= Len(social_apps)
                  /\ social_apps[id].provider = entry.provider_id
                  /\ social_apps[id].name = run.before.social_apps[id].name
                  /\ social_apps[id].client_id = run.before.social_apps[id].client_id
                  /\ social_apps[id].secret = run.before.social_apps[id].secret
                  /\ SitePairsOf(app_sites, id) = SitePairsOf(run.before.app_sites, id)
                  /\ \A i \in SitePairsOf(app_sites, id) :
                         app_sites[i] = run.before.app_sites[i]

\* a run with a placeholder client id for google after a run with real
\* credentials made google's row and related it to the site: the row holds
\* the real credentials of the earlier run and its relation to the site
C32_Witness ==
    /\ Ran
    /\ \E entry \in RunEntries :
          /\ entry.provider_id = "google"
          /\ Placeholder(entry.client_id)
          /\ ~Missing(entry.client_secret)
          /\ \E id \in 1..Len(run.before.social_apps) :
                /\ run.before.social_apps[id] =
                       SocialApp("google", "Google", <<"i", "d", "1">>, <<"s", "1">>)
                /\ <<id, run.site_id>> \in Range(run.before.app_sites)
                /\ social_apps[id] = run.before.social_apps[id]
                /\ <<id, run.site_id>> \in Range(app_sites)

----------------------------------------------------------------------------
(* Derived status *)

\* the timestamp is set
IsSet(timestamp) == Len(timestamp) = 1

====
